---- MODULE Spec2Model ----
(***************************************************************************)
(* Model of fflogsplot.py: extract_data, process_data, plot_data and main. *)
(*                                                                         *)
(* Number representation.  The program computes with Python floats.  Here  *)
(* times are integer milliseconds that are multiples of MsPerSecond,       *)
(* 'Pull Duration' is held in whole seconds, and every hours column holds  *)
(* the numerator of the value over SecondsPerHour (hours = n / 3600), so   *)
(* 0.5 h is 1800 and 1.0 h is 3600.  Percentages are integers.             *)
(***************************************************************************)
EXTENDS Integers, Sequences, FiniteSets, TLC

\* ---------------------------------------------------------------- bounds
MaxReports == 2
MaxPulls == 3

\* ------------------------------------------------------ program constants
MsPerSecond == 1000
SecondsPerHour == 3600
FullPercent == 100

\* ------------------------------------------------------------ file names
JsonPath == "data/fight_prog.json"
ProcessedPath == "data/fight_prog_processed.csv"
DailyPath == "data/daily_fight_prog_processed.csv"
DiffPath == "data/daily_fight_prog_diff.csv"
ImagePaths ==
    << "results/fight_completion_cumulative_pull_scatter.png",
       "results/fight_completion_measure_line.png",
       "results/historical_fight_completion_line.png",
       "results/fight_completion_boxes.png",
       "results/fight_completion_extrapolated.png" >>

\* ------------------------------------------------------- text operations
\* Strings are sequences of one-character strings.
Digits == {"0", "1", "2", "3", "4", "5", "6", "7", "8", "9"}

DigitVal(c) ==
    CASE c = "0" -> 0 [] c = "1" -> 1 [] c = "2" -> 2 [] c = "3" -> 3
      [] c = "4" -> 4 [] c = "5" -> 5 [] c = "6" -> 6 [] c = "7" -> 7
      [] c = "8" -> 8 [] c = "9" -> 9

\* str.startswith(prefix)
StartsWith(s, prefix) ==
    /\ Len(s) >= Len(prefix)
    /\ \A i \in 1..Len(prefix) : s[i] = prefix[i]

\* str.split(): the maximal runs of non-blank characters, in order
RECURSIVE SplitFrom(_, _, _)
SplitFrom(s, i, cur) ==
    IF i > Len(s)
    THEN IF cur = <<>> THEN <<>> ELSE <<cur>>
    ELSE IF s[i] = " "
         THEN IF cur = <<>>
              THEN SplitFrom(s, i + 1, <<>>)
              ELSE <<cur>> \o SplitFrom(s, i + 1, <<>>)
         ELSE SplitFrom(s, i + 1, Append(cur, s[i]))

Split(s) == SplitFrom(s, 1, <<>>)

\* int(token) for an unsigned decimal token; ok = FALSE is ValueError
RECURSIVE DecimalValue(_, _)
DecimalValue(tok, n) ==
    IF n = 0 THEN 0 ELSE 10 * DecimalValue(tok, n - 1) + DigitVal(tok[n])

ParseInt(tok) ==
    IF tok # <<>> /\ \A i \in 1..Len(tok) : tok[i] \in Digits
    THEN [ok |-> TRUE, value |-> DecimalValue(tok, Len(tok))]
    ELSE [ok |-> FALSE, value |-> 0]

\* int(title.split()[-1]); ok = FALSE is IndexError or ValueError
DayOfTitle(title) ==
    LET toks == Split(title)
    IN  IF toks = <<>>
        THEN [ok |-> FALSE, value |-> 0]
        ELSE ParseInt(toks[Len(toks)])

UcobPrefix == << "u", "c", "o", "b", " ", "d", "a", "y", " " >>
TitleDay1 == << "d", "a", "y", " ", "1" >>
TitleDay2 == << "d", "a", "y", " ", "2" >>
TitleUcob1 == UcobPrefix \o << "1" >>
TitleUcob12 == UcobPrefix \o << "1", "2" >>

\* ------------------------------------------------------- raw documents
FightKeys == {"startTime", "endTime", "lastPhaseAsAbsoluteIndex", "fightPercentage"}
ReportKeys == {"title", "fights"}

Fight(keys, s, e, ph, fp) ==
    [keys |-> keys, startTime |-> s, endTime |-> e,
     lastPhaseAsAbsoluteIndex |-> ph, fightPercentage |-> fp]

\* attempts of 600 s, 1200 s and 1800 s, one with endTime before startTime,
\* completions inside and outside 0..100, phases above and below 0
FightA == Fight(FightKeys, 0, 600000, 1, 80)
FightB == Fight(FightKeys, 600000, 1800000, 3, 35)
FightC == Fight(FightKeys, 0, 1800000, 2, -10)
FightD == Fight(FightKeys, 1800000, 600000, -1, 120)
\* attempts lacking a key
FightNoPct == Fight(FightKeys \ {"fightPercentage"}, 0, 600000, 1, 0)
FightNoStart == Fight(FightKeys \ {"startTime"}, 0, 600000, 1, 80)

Fights == {FightA, FightC, FightD}

Report(keys, title, fights) == [keys |-> keys, title |-> title, fights |-> fights]

RECURSIVE SeqsUpTo(_, _)
SeqsUpTo(S, n) ==
    IF n = 0 THEN {<<>>}
    ELSE LET shorter == SeqsUpTo(S, n - 1)
         IN  shorter \cup {Append(q, x) : q \in {t \in shorter : Len(t) = n - 1}, x \in S}

\* reports lacking a key, or holding an attempt that lacks one
NoTitleReport == Report({"fights"}, <<>>, <<FightA>>)
NoFightsReport == Report({"title"}, TitleDay1, <<>>)
BadFirstFightReport == Report(ReportKeys, TitleDay1, <<FightNoStart>>)
BadSecondFightReport == Report(ReportKeys, TitleDay2, <<FightC, FightNoPct>>)

MalformedReports ==
    {NoTitleReport, NoFightsReport, BadFirstFightReport, BadSecondFightReport}

\* reports with at most n attempts: complete ones and malformed ones
ReportsUpTo(titles, fights, n) ==
    {Report(ReportKeys, t, fs) : t \in titles, fs \in SeqsUpTo(fights, n)}
    \cup {m \in MalformedReports : Len(m.fights) <= n}

NumFights(report) == Len(report.fights)

RECURSIVE TotalAttempts(_)
TotalAttempts(doc) ==
    IF doc = <<>> THEN 0 ELSE NumFights(Head(doc)) + TotalAttempts(Tail(doc))

\* documents (the list raw_json_dict["reports"]["data"]) of at most n
\* reports whose attempts number at most budget in total
RECURSIVE DocsUpTo(_, _, _, _)
DocsUpTo(titles, fights, n, budget) ==
    IF n = 0 THEN {<<>>}
    ELSE {<<>>} \cup
         UNION {{<<r>> \o d : d \in DocsUpTo(titles, fights, n - 1, budget - NumFights(r))}
                  : r \in ReportsUpTo(titles, fights, budget)}

\* the document of the specification's example, in the order it names the
\* reports and in the order the remote service lists them (newest first)
ExampleDay1 == Report(ReportKeys, TitleDay1, <<FightA, FightB>>)
ExampleDay2 == Report(ReportKeys, TitleDay2, <<FightC>>)
ExampleDocListed == <<ExampleDay1, ExampleDay2>>
ExampleDocNewestFirst == <<ExampleDay2, ExampleDay1>>

Docs ==
    DocsUpTo({TitleDay1, TitleDay2}, Fights, MaxReports, MaxPulls)
    \cup {ExampleDocListed, ExampleDocNewestFirst}

\* what the remote API may answer: titles inside and outside the convention
Responses == DocsUpTo({TitleUcob1, TitleUcob12, TitleDay2}, {FightA}, MaxReports, MaxReports)

\* ------------------------------------------------------------- state
VARIABLES
    entry,                      \* the function the interpreter was asked to run
    pc,                         \* where control is
    calls,                      \* the functions invoked so far, in order
    files,                      \* paths present on disk
    written,                    \* paths written by this run
    json_file,                  \* content of data/fight_prog.json
    raw_json_dict,              \* process_data's argument (its reports.data list)
    fight_prog_data_raw,        \* the reversed report list
    r,                          \* number of reports the outer loop has entered
    p,                          \* number of fights of report r already handled
    day,
    daily_cumulative_hours,
    total_cumulative_hours,
    highest_phase,
    highest_fight_completion,
    cumulative_pulls,
    processed_fight_prog_data,  \* the column lists, one record per appended row
    csv_processed,              \* content of data/fight_prog_processed.csv
    csv_daily                   \* content of data/daily_fight_prog_processed.csv

accumulators ==
    << day, daily_cumulative_hours, total_cumulative_hours, highest_phase,
       highest_fight_completion, cumulative_pulls, processed_fight_prog_data >>

loopvars == << fight_prog_data_raw, r, p >>

disk == << files, written, json_file, csv_processed, csv_daily >>

vars == << entry, pc, calls, raw_json_dict, loopvars, accumulators, disk >>

\* --------------------------------------------------- pure steps of the code
\* variant: the report list taken in document order
Reversed_Identity(s) == s

\* raw_json_dict["reports"]["data"][::-1]
RECURSIVE Reversed(_)
Reversed(s) == IF s = <<>> THEN <<>> ELSE Append(Reversed(Tail(s)), Head(s))

\* variant: the subtraction with its operands exchanged
PullDuration_Swapped(fightdict) == (fightdict.startTime - fightdict.endTime) \div MsPerSecond

\* (float(endTime) - float(startTime)) / 1000, in seconds
PullDuration(fightdict) == (fightdict.endTime - fightdict.startTime) \div MsPerSecond

\* pull_duration / 60 / 60, as a numerator over SecondsPerHour
HoursOf(pull_duration) == pull_duration

\* variants: the latest value kept instead of the larger; min instead of max
PyMax_Latest(a, b) == b

PyMax_Min(a, b) == IF b < a THEN b ELSE a

\* Python's max(a, b)
PyMax(a, b) == IF b > a THEN b ELSE a

\* variant: the completion clamped to 0..100
FightCompletion_Clamped(fightdict) ==
    LET c == FullPercent - fightdict.fightPercentage
    IN  IF c < 0 THEN 0 ELSE IF c > FullPercent THEN FullPercent ELSE c

\* 100 - float(fightdict["fightPercentage"])
FightCompletion(fightdict) == FullPercent - fightdict.fightPercentage

\* variant: the increment left out
NextCumulativePulls_Stuck(c) == c

\* cumulative_pulls += 1
NextCumulativePulls(c) == c + 1

\* variant: a cleanup path that saves the partial table on the way out
Unwind_Flush(w) == w \cup {ProcessedPath}

\* an exception leaving process_data: no handler and no finally clause runs,
\* so the set of files written so far is left as it is
Unwind(w) == w

\* json.loads(s): only str, bytes and bytearray are decoded
JsonLoads(s) ==
    IF s.type \in {"str", "bytes", "bytearray"}
    THEN [ok |-> TRUE, value |-> s.content]
    ELSE [ok |-> FALSE, value |-> <<>>]

\* open(path, "r"): a text file object, not its content
OpenText(content) == [type |-> "TextIOWrapper", content |-> content]

\* the list comprehension keeping the reports titled "ucob day ..."
RECURSIVE FilterUcob(_)
FilterUcob(data) ==
    IF data = <<>> THEN <<>>
    ELSE IF StartsWith(Head(data).title, UcobPrefix)
         THEN <<Head(data)>> \o FilterUcob(Tail(data))
         ELSE FilterUcob(Tail(data))

HasAllTitles(data) == \A i \in 1..Len(data) : "title" \in data[i].keys

\* ------------------------------------------------------------ data frames
SetMax(S) == CHOOSE x \in S : \A y \in S : y <= x
SetMin(S) == CHOOSE x \in S : \A y \in S : x <= y

DaysOf(rows) == {rows[i].Day : i \in 1..Len(rows)}

RowsOfDay(rows, d) == {i \in 1..Len(rows) : rows[i].Day = d}

\* variant: the value of the day's last row instead of the day's maximum
HighestCumulativeHoursByDay_Last(rows, d) ==
    rows[SetMax(RowsOfDay(rows, d))].DailyCumulativeHours

\* groupby("Day")["Daily Cumulative Hours"].max(), looked up for one day
HighestCumulativeHoursByDay(rows, d) ==
    SetMax({rows[i].DailyCumulativeHours : i \in RowsOfDay(rows, d)})

\* the apply(...) that adds the 'Highest Daily Cumulative Hours' column
WithHighestDaily(rows) ==
    [i \in 1..Len(rows) |->
        rows[i] @@ [HighestDailyCumulativeHours |->
                        HighestCumulativeHoursByDay(rows, rows[i].Day)]]

\* ascending list of the elements of a set of integers
RECURSIVE SortedSeq(_)
SortedSeq(S) ==
    IF S = {} THEN <<>> ELSE <<SetMin(S)>> \o SortedSeq(S \ {SetMin(S)})

RECURSIVE SumOver(_, _)
SumOver(rows, I) ==
    IF I = {} THEN 0
    ELSE LET i == SetMin(I) IN rows[i].PullFightCompletion + SumOver(rows, I \ {i})

\* the k-th smallest 'Pull Fight Completion' among the rows I
KthSmallest(rows, I, k) ==
    LET v(i) == rows[i].PullFightCompletion
        rank(i) == Cardinality({j \in I : v(j) < v(i) \/ (v(j) = v(i) /\ j < i)})
    IN  v(CHOOSE i \in I : rank(i) = k - 1)

\* twice the median of 'Pull Fight Completion' over the rows I
Median2(rows, I) ==
    LET n == Cardinality(I)
    IN  IF n % 2 = 1
        THEN 2 * KthSmallest(rows, I, (n + 1) \div 2)
        ELSE KthSmallest(rows, I, n \div 2) + KthSmallest(rows, I, n \div 2 + 1)

\* the per-day frame: mean as Sum over Count, median as Median2 over 2
DailyFrame(rows) ==
    LET days == SortedSeq(DaysOf(rows))
    IN  [k \in 1..Len(days) |->
            LET I == RowsOfDay(rows, days[k])
            IN  [Day |-> days[k], Sum |-> SumOver(rows, I),
                 Count |-> Cardinality(I), Median2 |-> Median2(rows, I)]]

\* ---------------------------------------------------------------- Init
NoAccumulators ==
    /\ day = 0
    /\ daily_cumulative_hours = 0
    /\ total_cumulative_hours = 0
    /\ highest_phase = 0
    /\ highest_fight_completion = 0
    /\ cumulative_pulls = 0
    /\ processed_fight_prog_data = <<>>

InitCommon ==
    /\ calls = <<>>
    /\ written = {}
    /\ json_file = <<>>
    /\ fight_prog_data_raw = <<>>
    /\ r = 0
    /\ p = 0
    /\ NoAccumulators
    /\ csv_processed = <<>>
    /\ csv_daily = <<>>

InitMain ==
    /\ entry = "main"
    /\ pc = "extract_data"
    /\ raw_json_dict = <<>>
    /\ files \in SUBSET {DiffPath}
    /\ InitCommon

InitProcess ==
    /\ entry = "process_data"
    /\ pc = "process_data"
    /\ raw_json_dict \in Docs
    /\ files = {}
    /\ InitCommon

InitPlot ==
    /\ entry = "plot_data"
    /\ pc = "plot_data"
    /\ raw_json_dict = <<>>
    /\ files \in SUBSET {ProcessedPath, DailyPath, DiffPath}
    /\ InitCommon

Init == InitMain \/ InitProcess \/ InitPlot

\* ------------------------------------------------------------- actions
\* extract_data (lines 17-45), called from main at line 208.  A missing
\* environment value, a failed query, or a report without a title is a
\* fault; otherwise the filtered response is written to the JSON file.
ExtractData ==
    /\ pc = "extract_data"
    /\ calls' = Append(calls, "extract_data")
    /\ \/ /\ pc' = "fault"
          /\ UNCHANGED << files, written, json_file >>
       \/ \E response \in Responses :
            IF HasAllTitles(response)
            THEN /\ json_file' = FilterUcob(response)
                 /\ files' = files \cup {JsonPath}
                 /\ written' = written \cup {JsonPath}
                 /\ pc' = "main_load"
            ELSE /\ pc' = "fault"
                 /\ UNCHANGED << files, written, json_file >>
    /\ UNCHANGED << entry, raw_json_dict, loopvars, accumulators, csv_processed, csv_daily >>

\* main, lines 210-212: open the JSON file and hand json.loads the file
\* object; process_data is called with the decoded value
MainLoad ==
    /\ pc = "main_load"
    /\ LET loaded == JsonLoads(OpenText(json_file))
       IN  IF loaded.ok
           THEN /\ raw_json_dict' = loaded.value
                /\ pc' = "process_data"
           ELSE /\ pc' = "fault"
                /\ UNCHANGED raw_json_dict
    /\ UNCHANGED << entry, calls, loopvars, accumulators, disk >>

\* process_data, lines 48-70: empty column lists, reversed report list,
\* initial accumulators
ProcessStart ==
    /\ pc = "process_data"
    /\ calls' = Append(calls, "process_data")
    /\ fight_prog_data_raw' = Reversed(raw_json_dict)
    /\ r' = 0
    /\ p' = 0
    /\ processed_fight_prog_data' = <<>>
    /\ cumulative_pulls' = 1
    /\ total_cumulative_hours' = 0
    /\ highest_phase' = 0
    /\ highest_fight_completion' = 0
    /\ pc' = "loop"
    /\ UNCHANGED << entry, raw_json_dict, day, daily_cumulative_hours, disk >>

AtReportEnd ==
    IF r = 0 THEN TRUE ELSE p = Len(fight_prog_data_raw[r].fights)

\* lines 71-76: the outer loop takes the next report, parses its day,
\* resets the daily hours and starts enumerating its fights
NextReport ==
    /\ pc = "loop"
    /\ AtReportEnd
    /\ r < Len(fight_prog_data_raw)
    /\ LET reportdict == fight_prog_data_raw[r + 1]
           parsed == DayOfTitle(reportdict.title)
       IN  IF "title" \in reportdict.keys /\ parsed.ok
           THEN IF "fights" \in reportdict.keys
                THEN /\ day' = parsed.value
                     /\ daily_cumulative_hours' = 0
                     /\ r' = r + 1
                     /\ p' = 0
                     /\ pc' = "loop"
                     /\ UNCHANGED written
                ELSE /\ day' = parsed.value
                     /\ daily_cumulative_hours' = 0
                     /\ pc' = "fault"
                     /\ written' = Unwind(written)
                     /\ UNCHANGED << r, p >>
           ELSE /\ pc' = "fault"
                /\ written' = Unwind(written)
                /\ UNCHANGED << day, daily_cumulative_hours, r, p >>
    /\ UNCHANGED << entry, calls, raw_json_dict, fight_prog_data_raw, total_cumulative_hours,
                    highest_phase, highest_fight_completion, cumulative_pulls,
                    processed_fight_prog_data, files, json_file, csv_processed, csv_daily >>

\* lines 76-108: one iteration of the inner loop
ProcessPull ==
    /\ pc = "loop"
    /\ r > 0
    /\ p < Len(fight_prog_data_raw[r].fights)
    /\ LET fightdict == fight_prog_data_raw[r].fights[p + 1]
           pull_index == p
           pull_duration == PullDuration(fightdict)
           daily == daily_cumulative_hours + HoursOf(pull_duration)
           total == total_cumulative_hours + HoursOf(pull_duration)
           phase == PyMax(highest_phase, fightdict.lastPhaseAsAbsoluteIndex)
           completion == PyMax(highest_fight_completion, FightCompletion(fightdict))
       IN  IF FightKeys \subseteq fightdict.keys
           THEN /\ daily_cumulative_hours' = daily
                /\ total_cumulative_hours' = total
                /\ highest_phase' = phase
                /\ highest_fight_completion' = completion
                /\ processed_fight_prog_data' = Append(processed_fight_prog_data,
                      [CumulativePulls |-> cumulative_pulls,
                       Day |-> day,
                       Pull |-> pull_index + 1,
                       PullStartTime |-> fightdict.startTime,
                       PullEndTime |-> fightdict.endTime,
                       PullPhase |-> fightdict.lastPhaseAsAbsoluteIndex,
                       HistoricalHighestPhase |-> phase,
                       PullFightCompletion |-> FightCompletion(fightdict),
                       HistoricalHighestFightCompletion |-> completion,
                       PullDuration |-> pull_duration,
                       DailyCumulativeHours |-> daily,
                       TotalCumulativeHours |-> total])
                /\ cumulative_pulls' = NextCumulativePulls(cumulative_pulls)
                /\ p' = p + 1
                /\ pc' = "loop"
                /\ UNCHANGED written
           ELSE /\ pc' = "fault"
                /\ written' = Unwind(written)
                /\ UNCHANGED << daily_cumulative_hours, total_cumulative_hours, highest_phase,
                                highest_fight_completion, processed_fight_prog_data,
                                cumulative_pulls, p >>
    /\ UNCHANGED << entry, calls, raw_json_dict, fight_prog_data_raw, r, day,
                    files, json_file, csv_processed, csv_daily >>

\* lines 110-131: build both frames, add the per-day maximum column, write
\* the two tables; back in main, line 214 calls plot_data.  With no row at
\* all the column assignment of lines 122-125 receives an empty frame, which
\* the dataframe library either accepts or rejects depending on its version.
ProcessFinish ==
    /\ pc = "loop"
    /\ AtReportEnd
    /\ r = Len(fight_prog_data_raw)
    /\ \/ /\ csv_processed' = WithHighestDaily(processed_fight_prog_data)
          /\ csv_daily' = DailyFrame(processed_fight_prog_data)
          /\ files' = files \cup {ProcessedPath, DailyPath}
          /\ written' = written \cup {ProcessedPath, DailyPath}
          /\ pc' = IF entry = "main" THEN "plot_data" ELSE "done"
       \/ /\ processed_fight_prog_data = <<>>
          /\ pc' = "fault"
          /\ written' = Unwind(written)
          /\ UNCHANGED << files, csv_processed, csv_daily >>
    /\ UNCHANGED << entry, calls, raw_json_dict, loopvars, accumulators, json_file >>

\* plot_data, lines 133-205: the three tables are read first (a missing one
\* is a fault before any chart), four charts are saved, then the regression
\* chart, whose limits the plotting library rejects when the fit is
\* degenerate (fit_ok = FALSE)
PlotData ==
    /\ pc = "plot_data"
    /\ calls' = Append(calls, "plot_data")
    /\ IF {ProcessedPath, DailyPath, DiffPath} \subseteq files
       THEN \E fit_ok \in BOOLEAN :
              LET saved == {ImagePaths[i] : i \in 1..(IF fit_ok THEN 5 ELSE 4)}
              IN  /\ files' = files \cup saved
                  /\ written' = written \cup saved
                  /\ pc' = IF fit_ok THEN "done" ELSE "fault"
       ELSE /\ pc' = "fault"
            /\ UNCHANGED << files, written >>
    /\ UNCHANGED << entry, raw_json_dict, loopvars, accumulators, json_file,
                    csv_processed, csv_daily >>

Next ==
    \/ ExtractData
    \/ MainLoad
    \/ ProcessStart
    \/ NextReport
    \/ ProcessPull
    \/ ProcessFinish
    \/ PlotData

Spec == Init /\ [][Next]_vars

TypeOK ==
    /\ entry \in {"main", "process_data", "plot_data"}
    /\ pc \in {"extract_data", "main_load", "process_data", "loop", "plot_data", "done", "fault"}
    /\ r \in 0..Len(fight_prog_data_raw)
    /\ cumulative_pulls \in Nat

\* ------------------------------------------------------------ properties
rows == processed_fight_prog_data

ProcessReturned == ProcessedPath \in written

ExtractReturned == JsonPath \in written

\* where each row should come from: reports from the last listed to the
\* first, the fights of each in their listed order
RECURSIVE OriginsFrom(_, _)
OriginsFrom(doc, k) ==
    IF k = 0 THEN <<>>
    ELSE [j \in 1..Len(doc[k].fights) |-> [rep |-> k, idx |-> j]] \o OriginsFrom(doc, k - 1)

Origins == OriginsFrom(raw_json_dict, Len(raw_json_dict))

OriginFight(i) == raw_json_dict[Origins[i].rep].fights[Origins[i].idx]

Steps == 1..(Len(rows) - 1)

\* C1: process_data emits exactly one row per attempt, and 'Cumulative
\* Pulls' is 1, 2, ..., N in row order, N the number of attempts of all
\* reports of the document.
C1_OneRowPerAttempt ==
    /\ \A i \in 1..Len(rows) : rows[i].CumulativePulls = i
    /\ ProcessReturned =>
          /\ Len(rows) = TotalAttempts(raw_json_dict)
          /\ Len(csv_processed) = TotalAttempts(raw_json_dict)
          /\ \A i \in 1..Len(csv_processed) : csv_processed[i].CumulativePulls = i

C1_Witness ==
    /\ ProcessReturned
    /\ Len(raw_json_dict) = 2
    /\ Len(csv_processed) = 3

\* C2: in a run of main, once extract_data has returned normally,
\* process_data is invoked (and then plot_data); main does not stop before.
C2_StagesInSequence ==
    (entry = "main" /\ ExtractReturned /\ pc \in {"done", "fault"})
        => \E i \in 1..Len(calls) : calls[i] = "process_data"

\* C3: the rows of a report listed later in the document precede the rows
\* of a report listed earlier, the rows of one report follow the order of
\* its fights, and 'Pull' counts 1, 2, ... within each report.
C3_OldestFirst ==
    /\ Len(rows) <= Len(Origins)
    /\ \A i \in 1..Len(rows) :
          /\ rows[i].Pull = Origins[i].idx
          /\ rows[i].Day = DayOfTitle(raw_json_dict[Origins[i].rep].title).value
          /\ rows[i].PullStartTime = OriginFight(i).startTime
          /\ rows[i].PullEndTime = OriginFight(i).endTime
          /\ rows[i].PullPhase = OriginFight(i).lastPhaseAsAbsoluteIndex
    /\ ProcessReturned => Len(rows) = Len(Origins)

C3_Witness ==
    /\ ProcessReturned
    /\ Len(raw_json_dict) = 2
    /\ Len(raw_json_dict[1].fights) = 1
    /\ Len(raw_json_dict[2].fights) = 2
    /\ raw_json_dict[1].title # raw_json_dict[2].title
    /\ raw_json_dict[1].fights[1] # raw_json_dict[2].fights[1]
    /\ rows[3].Pull = 1

\* C4 as claimed: with no constraint on startTime and endTime, 'Total
\* Cumulative Hours' never decreases from a row to the next, and 'Daily
\* Cumulative Hours' never decreases between consecutive rows of equal 'Day'.
C4_HoursNeverDecrease ==
    \A i \in Steps :
        /\ rows[i + 1].TotalCumulativeHours >= rows[i].TotalCumulativeHours
        /\ rows[i + 1].Day = rows[i].Day =>
              rows[i + 1].DailyCumulativeHours >= rows[i].DailyCumulativeHours

\* C4 amended: a row whose attempt does not end before it starts never
\* lowers 'Total Cumulative Hours', and never lowers 'Daily Cumulative
\* Hours' against the previous row of the same report.
C4_HoursNeverDecreaseForward ==
    \A i \in Steps :
        rows[i + 1].PullEndTime >= rows[i + 1].PullStartTime =>
            /\ rows[i + 1].TotalCumulativeHours >= rows[i].TotalCumulativeHours
            /\ rows[i + 1].Pull > 1 =>
                  rows[i + 1].DailyCumulativeHours >= rows[i].DailyCumulativeHours

C4_Witness ==
    /\ ProcessReturned
    /\ Len(rows) = 3
    /\ \A i \in 1..3 : rows[i].PullEndTime > rows[i].PullStartTime
    /\ rows[2].Pull = 2
    /\ rows[3].Pull = 1
    /\ rows[3].Day = rows[2].Day
    /\ rows[3].DailyCumulativeHours < rows[2].DailyCumulativeHours
    /\ rows[3].TotalCumulativeHours > rows[2].TotalCumulativeHours

\* C5: 'Historical Highest Phase' and 'Historical Highest Fight Completion'
\* never decrease from a row to the next, across report boundaries and for
\* fightPercentage outside 0..100 as well.
C5_RunningMaximaMonotone ==
    \A i \in Steps :
        /\ rows[i + 1].HistoricalHighestPhase >= rows[i].HistoricalHighestPhase
        /\ rows[i + 1].HistoricalHighestFightCompletion
              >= rows[i].HistoricalHighestFightCompletion

C5_Witness ==
    /\ ProcessReturned
    /\ \E i \in Steps :
          /\ rows[i + 1].Pull = 1
          /\ rows[i + 1].Day # rows[i].Day
          /\ rows[i].PullFightCompletion > FullPercent
          /\ rows[i + 1].PullFightCompletion < 0
          /\ rows[i + 1].PullPhase < rows[i].PullPhase

\* C6 as claimed: for the example document with "day 1" (600 s, 1200 s)
\* listed before "day 2" (1800 s), there are 3 rows, the 2nd row has 'Daily
\* Cumulative Hours' 0.5 and the 3rd row has 'Total Cumulative Hours' 1.0.
C6_ExampleAsListed ==
    (raw_json_dict = ExampleDocListed /\ ProcessReturned) =>
        /\ Len(rows) = 3
        /\ 2 * rows[2].DailyCumulativeHours = SecondsPerHour
        /\ rows[3].TotalCumulativeHours = SecondsPerHour

\* C6 amended: the example's values are those of the document listing "day 2"
\* before "day 1" (newest first); listed "day 1" first, the same document
\* gives 3 rows and 1.0 total hours in row 3, but row 2 is the first attempt
\* of "day 1" with 600/3600 daily hours, and 0.5 is reached in row 3.
C6_ExampleNewestFirst ==
    /\ (raw_json_dict = ExampleDocNewestFirst /\ ProcessReturned) =>
          /\ Len(rows) = 3
          /\ 2 * rows[2].DailyCumulativeHours = SecondsPerHour
          /\ rows[3].TotalCumulativeHours = SecondsPerHour
    /\ (raw_json_dict = ExampleDocListed /\ ProcessReturned) =>
          /\ Len(rows) = 3
          /\ 6 * rows[2].DailyCumulativeHours = SecondsPerHour
          /\ 2 * rows[3].DailyCumulativeHours = SecondsPerHour
          /\ rows[3].TotalCumulativeHours = SecondsPerHour

C6_Witness ==
    /\ raw_json_dict = ExampleDocNewestFirst
    /\ ProcessReturned
    /\ rows[2].Day = 1
    /\ rows[3].Day = 2

\* C7: the 'Pull Fight Completion' of an attempt's row is 100 minus the
\* attempt's fightPercentage, with no clamping: values above 100 and below 0
\* pass through.
C7_CompletionUnclamped ==
    \A i \in 1..Len(rows) :
        rows[i].PullFightCompletion = 100 - OriginFight(i).fightPercentage

C7_Witness ==
    /\ ProcessReturned
    /\ \E i, j \in 1..Len(csv_processed) :
          /\ OriginFight(i).fightPercentage < 0
          /\ csv_processed[i].PullFightCompletion > 100
          /\ OriginFight(j).fightPercentage > 100
          /\ csv_processed[j].PullFightCompletion < 0

IntMax(S) == CHOOSE x \in S : \A y \in S : y <= x

\* C8 as claimed: in every row the 'Historical Highest' columns equal the
\* maximum of 'Pull Fight Completion' (of 'Pull Phase') over that row and
\* the rows before it, also when all of them are negative.
C8_RunningMaxOfRows ==
    \A i \in 1..Len(rows) :
        /\ rows[i].HistoricalHighestFightCompletion
              = IntMax({rows[j].PullFightCompletion : j \in 1..i})
        /\ rows[i].HistoricalHighestPhase = IntMax({rows[j].PullPhase : j \in 1..i})

\* C8 amended: the 'Historical Highest' columns equal the maximum of 0 and
\* of 'Pull Fight Completion' (of 'Pull Phase') over that row and the rows
\* before it; while every value so far is negative the columns hold 0.
C8_RunningMaxWithFloor ==
    \A i \in 1..Len(rows) :
        /\ rows[i].HistoricalHighestFightCompletion
              = IntMax({0} \cup {rows[j].PullFightCompletion : j \in 1..i})
        /\ rows[i].HistoricalHighestPhase
              = IntMax({0} \cup {rows[j].PullPhase : j \in 1..i})

C8_Witness ==
    /\ ProcessReturned
    /\ Len(rows) >= 3
    /\ rows[1].PullFightCompletion < 0
    /\ rows[1].PullPhase < 0
    /\ rows[1].HistoricalHighestFightCompletion = 0
    /\ rows[1].HistoricalHighestPhase = 0
    /\ rows[2].HistoricalHighestFightCompletion > rows[3].PullFightCompletion
    /\ rows[3].PullFightCompletion > 0
    /\ rows[2].HistoricalHighestPhase > rows[3].PullPhase

\* C9: every written row's 'Highest Daily Cumulative Hours' is the maximum
\* of 'Daily Cumulative Hours' over all rows with that row's 'Day', also
\* when two reports parse to the same day number.
C9_HighestDailyBroadcast ==
    ProcessReturned =>
        /\ Len(csv_processed) = Len(rows)
        /\ \A i \in 1..Len(csv_processed) :
              /\ csv_processed[i].Day = rows[i].Day
              /\ csv_processed[i].DailyCumulativeHours = rows[i].DailyCumulativeHours
              /\ \E j \in 1..Len(rows) :
                    /\ rows[j].Day = rows[i].Day
                    /\ rows[j].DailyCumulativeHours
                          = csv_processed[i].HighestDailyCumulativeHours
              /\ \A j \in 1..Len(rows) :
                    rows[j].Day = rows[i].Day =>
                        rows[j].DailyCumulativeHours
                            <= csv_processed[i].HighestDailyCumulativeHours

C9_Witness ==
    /\ ProcessReturned
    /\ Len(csv_processed) = 3
    /\ \A i \in 1..3 : csv_processed[i].Day = 1
    /\ csv_processed[1].Pull = 1
    /\ csv_processed[2].Pull = 1
    /\ csv_processed[3].Pull = 2
    /\ csv_processed[1].DailyCumulativeHours > csv_processed[3].DailyCumulativeHours
    /\ csv_processed[3].HighestDailyCumulativeHours = csv_processed[1].DailyCumulativeHours

Malformed(doc) ==
    \E k \in 1..Len(doc) :
        \/ ~(ReportKeys \subseteq doc[k].keys)
        \/ \E j \in 1..Len(doc[k].fights) : ~(FightKeys \subseteq doc[k].fights[j].keys)

\* C10: when an attempt lacks a required key, or a report lacks its title or
\* its fights, process_data ends in a fault and writes neither table, however
\* many rows it had accumulated: nothing partial is persisted.
C10_NoPartialResult ==
    /\ (entry = "process_data" /\ Malformed(raw_json_dict)) =>
          /\ pc # "done"
          /\ written = {}
          /\ files = {}
          /\ csv_processed = <<>>
          /\ csv_daily = <<>>
    /\ (entry = "process_data" /\ pc = "fault") => written = {}

C10_Witness ==
    /\ entry = "process_data"
    /\ Malformed(raw_json_dict)
    /\ pc = "fault"
    /\ Len(rows) = 2
    /\ r = 2
    /\ written = {}

====
